---- MODULE Spec2Model ----
(***************************************************************************)
(* Model of libfswatch's Windows backend (windows_monitor.cpp): the        *)
(* per-path DirectoryChangeEvent sessions kept in dce_by_path, the         *)
(* single-threaded polling loop windows_monitor::run, the decoder of the   *)
(* FILE_NOTIFY_INFORMATION buffer and the action-code table decode_flags.  *)
(*                                                                         *)
(* The operating system is the environment: it completes outstanding       *)
(* ReadDirectoryChangesW requests (OsComplete) and decides the outcome of  *)
(* every call that can fail (CreateFileW, ReadDirectoryChangesW, malloc,   *)
(* ResetEvent, WideCharToMultiByte).                                       *)
(***************************************************************************)
EXTENDS Integers, Sequences, FiniteSets, TLC

(***************************************************************************)
(* Bounds of the model.                                                    *)
(***************************************************************************)
NumPaths == 2        \* number of monitored paths handed to the constructor
MaxRecords == 3      \* most records the OS puts in one notification buffer
MaxActionCode == 15  \* action codes 0..MaxActionCode are given to decode_flags
NumWrappers == 2     \* CHandle objects of the handle-wrapper specification
MaxHandles == 3      \* raw handles the OS hands out in that specification

(***************************************************************************)
(* Program constants.                                                      *)
(***************************************************************************)
FILE_ACTION_ADDED == 1
FILE_ACTION_REMOVED == 2
FILE_ACTION_MODIFIED == 3
FILE_ACTION_RENAMED_OLD_NAME == 4
FILE_ACTION_RENAMED_NEW_NAME == 5
SizeofWchar == 2         \* sizeof(wchar_t)
FileNameOffset == 12     \* offset of FileName in FILE_NOTIFY_INFORMATION
SizeofFni == 16          \* sizeof(FILE_NOTIFY_INFORMATION)
InitBufferLength == 128  \* DirectoryChangeEvent dce(128)
Backslash == 92          \* L"\\"
BlocksPerSession == 2    \* the buffer and the OVERLAPPED of a DirectoryChangeEvent

NULL == -1               \* nullptr, as a value of curr_entry
INVALID_HANDLE_VALUE == "INVALID_HANDLE_VALUE"
nullptr == "nullptr"     \* the null HANDLE
Indeterminate == "indeterminate"  \* memory the OS owns while a read is pending

(***************************************************************************)
(* decode_flags and its table.                                             *)
(***************************************************************************)
create_flag_type_vector_swapped ==
  << [action |-> FILE_ACTION_ADDED,            types |-> <<"Created">>],
     [action |-> FILE_ACTION_REMOVED,          types |-> <<"Removed">>],
     [action |-> FILE_ACTION_MODIFIED,         types |-> <<"Updated">>],
     [action |-> FILE_ACTION_RENAMED_OLD_NAME, types |-> <<"MovedTo", "Renamed">>],
     [action |-> FILE_ACTION_RENAMED_NEW_NAME, types |-> <<"MovedFrom", "Renamed">>] >>

create_flag_type_vector ==
  << [action |-> FILE_ACTION_ADDED,            types |-> <<"Created">>],
     [action |-> FILE_ACTION_REMOVED,          types |-> <<"Removed">>],
     [action |-> FILE_ACTION_MODIFIED,         types |-> <<"Updated">>],
     [action |-> FILE_ACTION_RENAMED_OLD_NAME, types |-> <<"MovedFrom", "Renamed">>],
     [action |-> FILE_ACTION_RENAMED_NEW_NAME, types |-> <<"MovedTo", "Renamed">>] >>

(***************************************************************************)
(* Paths.  initialize_windows_path_list turns each POSIX path of `paths`   *)
(* into a wide Windows path; the model's i-th path becomes the two code    *)
(* units of a drive name ("C:", "D:", ...).                                *)
(***************************************************************************)
paths == 1..NumPaths

cygwin_create_path(path) == <<66 + path, 58>>

PathAt(i) == cygwin_create_path(i)

(***************************************************************************)
(* The notification buffer.  A record is a FILE_NOTIFY_INFORMATION: its    *)
(* FileName field is the run of code units that starts at the FileName     *)
(* member, which may go on past the FileNameLength bytes of the name (the  *)
(* name is not terminated; padding or garbage follows it).                 *)
(***************************************************************************)
RawRecords ==
  { [Action |-> FILE_ACTION_ADDED,    FileNameLength |-> 2, FileName |-> <<97, 98>>],
    [Action |-> FILE_ACTION_MODIFIED, FileNameLength |-> 2, FileName |-> <<97>>],
    [Action |-> FILE_ACTION_REMOVED,  FileNameLength |-> 2, FileName |-> <<97, 0>>],
    [Action |-> 7,                    FileNameLength |-> 4, FileName |-> <<233, 2051, 99>>],
    [Action |-> FILE_ACTION_MODIFIED, FileNameLength |-> 0, FileName |-> <<98>>] }

Align4(n) == ((n + 3) \div 4) * 4

RecordBytes(r) == Align4(FileNameOffset + r.FileNameLength)

\* The records laid out one after the other as the OS does: each links to the
\* next by its byte size, the last has NextEntryOffset = 0.
Layout(rs) ==
  [i \in 1..Len(rs) |->
     [NextEntryOffset |-> IF i = Len(rs) THEN 0 ELSE RecordBytes(rs[i]),
      Action          |-> rs[i].Action,
      FileNameLength  |-> rs[i].FileNameLength,
      FileName        |-> rs[i].FileName]]

RECURSIVE SeqsUpTo(_, _)
SeqsUpTo(S, n) ==
  IF n = 0 THEN {<<>>}
  ELSE LET shorter == SeqsUpTo(S, n - 1)
       IN  shorter \cup {Append(s, x) : s \in {t \in shorter : Len(t) = n - 1}, x \in S}

\* The buffers a completed read can hand back; <<>> is "zero bytes returned".
Buffers == {Layout(rs) : rs \in SeqsUpTo(RawRecords, MaxRecords)}

RECURSIVE OffsetOf(_, _)
OffsetOf(buffer, i) ==
  IF i = 1 THEN 0 ELSE OffsetOf(buffer, i - 1) + buffer[i - 1].NextEntryOffset

\* reinterpret_cast<FILE_NOTIFY_INFORMATION *>(curr_entry)
EntryAt(buffer, offset) ==
  buffer[CHOOSE i \in 1..Len(buffer) : OffsetOf(buffer, i) = offset]

BytesReturned(buffer) ==
  IF buffer = <<>> THEN 0
  ELSE OffsetOf(buffer, Len(buffer)) + FileNameOffset + buffer[Len(buffer)].FileNameLength

(***************************************************************************)
(* WideCharToMultiByte(CP_UTF8, 0, abs_path.c_str(), -1, ...) followed by  *)
(* cout << u_string: the code units up to the first NUL, each encoded in   *)
(* UTF-8 (code units of the basic plane; no surrogates in the model).      *)
(***************************************************************************)
Utf8Unit(u) ==
  IF u < 128 THEN <<u>>
  ELSE IF u < 2048 THEN <<192 + (u \div 64), 128 + (u % 64)>>
  ELSE <<224 + (u \div 4096), 128 + ((u \div 64) % 64), 128 + (u % 64)>>

RECURSIVE WideCharToMultiByte(_)
WideCharToMultiByte(ws) ==
  IF ws = <<>> \/ Head(ws) = 0 THEN <<>>
  ELSE Utf8Unit(Head(ws)) \o WideCharToMultiByte(Tail(ws))

Prefix(s, n) == SubSeq(s, 1, IF n < Len(s) THEN n ELSE Len(s))

\* wstring(currEntry->FileName, ...) read up to a terminator instead of by length
FileNameOf_terminated(entry) ==
  LET nul == {i \in 1..Len(entry.FileName) : entry.FileName[i] = 0}
  IN  IF nul = {} THEN entry.FileName
      ELSE Prefix(entry.FileName, (CHOOSE i \in nul : \A j \in nul : i <= j) - 1)

\* wstring(currEntry->FileName, currEntry->FileNameLength/sizeof(wchar_t))
FileNameOf(entry) == Prefix(entry.FileName, entry.FileNameLength \div SizeofWchar)

\* path + L"\\" + wstring(...)
AbsPath(path, entry) == path \o <<Backslash>> \o FileNameOf(entry)

\* curr_entry = (NextEntryOffset == 0) ? nullptr : curr_entry + NextEntryOffset,
\* with the advance dropped
NextEntry_stop(offset, entry) == NULL

NextEntry(offset, entry) ==
  IF entry.NextEntryOffset = 0 THEN NULL ELSE offset + entry.NextEntryOffset

VARIABLES
  pc,              \* position of windows_monitor::run
  idx,             \* position of the for loop over load->win_paths
  win_paths,       \* load->win_paths
  event_by_path,   \* load->event_by_path: the state of each path's event object
  dce_by_path,     \* load->dce_by_path: the registry of sessions
  requests,        \* per path, the reads issued on the session's handle and not
                   \* yet retrieved by GetOverlappedResult, oldest first
  open_handles,    \* per path, the number of open directory handles
  heap,            \* per path, the live malloc blocks of its sessions
  curr_entry,      \* byte offset of the record being decoded, or NULL
  out,             \* what the current visit of a path wrote to cout
  visit,           \* what the current visit of a path did (the log lines)
  event_flag_type, \* the static table of decode_flags
  df_pc, df_flag, df_i, evt_flags_set, df_result,  \* a call of decode_flags
  wrappers,        \* CHandle objects: "dead", or the value of the member h
  issued,          \* number of raw handles the OS has handed out
  closed,          \* per HANDLE value, the number of CloseHandle calls on it
  moved            \* the last operation on the CHandle objects, and the value
                   \* its target held before it

mainvars == <<pc, idx, win_paths, event_by_path, dce_by_path, requests,
              open_handles, heap, curr_entry, out, visit>>
dfvars == <<df_pc, df_flag, df_i, evt_flags_set, df_result>>
chvars == <<wrappers, issued, closed, moved>>
vars == <<mainvars, event_flag_type, dfvars, chvars>>

WinPaths == {cygwin_create_path(p) : p \in paths}

\* the k-th handle the OS hands out, and every value a HANDLE can have
Handle(k) == ToString(k)
Handles == {Handle(k) : k \in 1..MaxHandles}
HandleValues == Handles \cup {INVALID_HANDLE_VALUE, nullptr}

NoVisit == [path |-> <<>>, init |-> "none", poll |-> "none",
            reset |-> "none", reissue |-> "none"]

Init ==
  /\ pc = "start"
  /\ idx = 1
  /\ win_paths = {}
  /\ event_by_path = <<>>
  /\ dce_by_path = <<>>
  /\ requests = [p \in WinPaths |-> <<>>]
  /\ open_handles = [p \in WinPaths |-> 0]
  /\ heap = [p \in WinPaths |-> 0]
  /\ curr_entry = NULL
  /\ out = <<>>
  /\ visit = NoVisit
  /\ event_flag_type = create_flag_type_vector
  /\ df_pc = "idle"
  /\ df_flag = 0
  /\ df_i = 1
  /\ evt_flags_set = {}
  /\ df_result = {}
  /\ wrappers = [w \in 1..NumWrappers |-> "dead"]
  /\ issued = 0
  /\ closed = [h \in HandleValues |-> 0]
  /\ moved = [op |-> "none", to |-> 0, from |-> 0, old |-> "dead"]


(***************************************************************************)
(* Helpers of the session registry.                                        *)
(***************************************************************************)
\* DirectoryChangeEvent dce(128); dce.handle = h; hEvent = event_by_path[path]
NewDce(path) ==
  [handle         |-> path,
   buffer_size    |-> SizeofFni * InitBufferLength,
   bytes_returned |-> 0,
   buffer         |-> Indeterminate,
   hEvent         |-> path]

\* load->dce_by_path[path] = std::move(dce)
Insert(registry, path, dce) == (path :> dce) @@ registry

\* erase that drops every session instead of the one of `path`
stop_search_for_path_clear(path) == <<>>

\* erase that drops nothing
stop_search_for_path_noop(path) == dce_by_path

\* load->dce_by_path.erase(path)
stop_search_for_path(path) ==
  [q \in DOMAIN dce_by_path \ {path} |-> dce_by_path[q]]

\* ~DirectoryChangeEvent of the sessions that left the registry: ~CHandle
\* closes the directory handle, which cancels the reads pending on it.
HandlesAfter(registry) ==
  [q \in WinPaths |->
     IF q \in DOMAIN dce_by_path \ DOMAIN registry
     THEN open_handles[q] - 1 ELSE open_handles[q]]

\* a destruction that frees nothing
HeapAfter_leak(registry) == heap

\* ... and the unique_ptr members free the buffer and the OVERLAPPED
HeapAfter(registry) ==
  [q \in WinPaths |->
     IF q \in DOMAIN dce_by_path \ DOMAIN registry
     THEN heap[q] - BlocksPerSession ELSE heap[q]]

RequestsAfter(registry) ==
  [q \in WinPaths |->
     IF q \in DOMAIN dce_by_path \ DOMAIN registry THEN <<>> ELSE requests[q]]

\* ReadDirectoryChangesW issued twice for one call
read_directory_changes_twice(reqs, path, accepted) ==
  IF accepted THEN [reqs EXCEPT ![path] = @ \o <<"pending", "pending">>] ELSE reqs

\* read_directory_changes: an accepted ReadDirectoryChangesW is one more
\* outstanding read on the handle of the session of `path`
read_directory_changes(reqs, path, accepted) ==
  IF accepted THEN [reqs EXCEPT ![path] = Append(@, "pending")] ELSE reqs

\* a `continue` that leaves run
Continue_throw == idx' = idx /\ pc' = "fatal"

\* a `continue` that visits the same path again
Continue_again == idx' = idx /\ pc' = "find"

\* the `continue` of the for loop, and its end
Continue ==
  IF idx < NumPaths
  THEN idx' = idx + 1 /\ pc' = "find"
  ELSE idx' = 1 /\ pc' = "sleep"

(***************************************************************************)
(* windows_monitor::run, before the loop.                                  *)
(***************************************************************************)
run_setup ==
  /\ pc = "start"
  /\ \E outcome \in {"ok", "create_path_failed", "CreateEvent_failed"} :
       IF outcome = "ok"
       THEN /\ win_paths' = {cygwin_create_path(p) : p \in paths}
            /\ event_by_path' = [p \in win_paths' |-> "nonsignaled"]
            /\ pc' = "sleep"
       ELSE /\ pc' = "fatal"
            /\ UNCHANGED <<win_paths, event_by_path>>
  /\ UNCHANGED <<idx, dce_by_path, requests, open_handles, heap, curr_entry, out,
                 visit>>
  /\ UNCHANGED <<event_flag_type, dfvars, chvars>>

\* ::sleep(latency), then the for loop starts over
run_sleep ==
  /\ pc = "sleep"
  /\ pc' = "find"
  /\ idx' = 1
  /\ UNCHANGED <<win_paths, event_by_path, dce_by_path, requests, open_handles,
                 heap, curr_entry, out, visit>>
  /\ UNCHANGED <<event_flag_type, dfvars, chvars>>

\* auto it = load->dce_by_path.find(path); if (it == end) ...
run_find ==
  /\ pc = "find"
  /\ LET path == PathAt(idx) IN
       /\ visit' = [NoVisit EXCEPT !.path = path]
       /\ out' = <<>>
       /\ pc' = IF path \in DOMAIN dce_by_path THEN "poll" ELSE "init"
  /\ UNCHANGED <<idx, win_paths, event_by_path, dce_by_path, requests,
                 open_handles, heap, curr_entry>>
  /\ UNCHANGED <<event_flag_type, dfvars, chvars>>

(***************************************************************************)
(* init_search_for_path, and the lookup that follows it in run.            *)
(***************************************************************************)
InitOutcomes ==
  {"ok", "open_failed", "dce_alloc_failed", "read_failed", "insert_alloc_failed"}

\* the session is put in the registry before the first read is issued
RegistryAfterInit_early(path, outcome) ==
  IF outcome \in {"ok", "read_failed"}
  THEN Insert(dce_by_path, path, NewDce(path))
  ELSE dce_by_path

\* the session is never moved into the registry
RegistryAfterInit_noinsert(path, outcome) == dce_by_path

\* the registry when init_search_for_path returns or throws
RegistryAfterInit(path, outcome) ==
  IF outcome = "ok"
  THEN Insert(dce_by_path, path,
              [NewDce(path) EXCEPT !.bytes_returned = Indeterminate])
  ELSE dce_by_path

\* the raw handle of CreateFileW is never wrapped, so nothing closes it when
\* the first read is refused
InitHandleStaysOpen_raw(registered, outcome) == outcome # "open_failed"

\* whether the handle CreateFileW opened is still open after the call
InitHandleStaysOpen(registered, outcome) ==
  registered \/ outcome = "dce_alloc_failed"

init_search_for_path ==
  /\ pc = "init"
  /\ LET path == PathAt(idx) IN
     \E outcome \in InitOutcomes :
       LET registry == RegistryAfterInit(path, outcome) IN
       /\ visit' = [visit EXCEPT !.init = outcome]
       /\ dce_by_path' = registry
       \* CreateFileW opened a handle that stays open: in the session, or
       \* leaked when the constructor of dce throws before dce.handle = h
       /\ open_handles' =
            [open_handles EXCEPT ![path] =
               IF InitHandleStaysOpen(path \in DOMAIN registry, outcome)
               THEN @ + 1 ELSE @]
       \* the blocks of dce stay allocated only when dce was moved into the
       \* registry; every other return or throw destroys dce
       /\ heap' =
            [heap EXCEPT ![path] =
               IF path \in DOMAIN registry THEN @ + BlocksPerSession ELSE @]
       /\ requests' =
            IF path \in DOMAIN registry
            THEN read_directory_changes(requests, path, outcome # "read_failed")
            ELSE requests
       /\ event_by_path' =
            IF outcome \in {"ok", "insert_alloc_failed"}
            THEN [event_by_path EXCEPT ![path] = "nonsignaled"]
            ELSE event_by_path
       /\ IF outcome \in {"dce_alloc_failed", "insert_alloc_failed"}
          THEN pc' = "fatal" /\ idx' = idx
          ELSE IF outcome # "ok"
          THEN Continue
          \* it = find(path); if (it == end) throw "Initialization failed."
          ELSE /\ pc' = IF path \in DOMAIN registry THEN "poll" ELSE "fatal"
               /\ idx' = idx
  /\ UNCHANGED <<win_paths, curr_entry, out>>
  /\ UNCHANGED <<event_flag_type, dfvars, chvars>>


(***************************************************************************)
(* The poll of a session: GetOverlappedResult(..., FALSE) and the error    *)
(* branches.                                                               *)
(***************************************************************************)
\* GetLastError() after GetOverlappedResult returned FALSE on a request in
\* the given state; a request that completed with success gives no error
GetLastError(status) ==
  CASE status = "pending"  -> "ERROR_IO_INCOMPLETE"
    [] status = "overflow" -> "ERROR_NOTIFY_ENUM_DIR"
    [] status = "ok"       -> "ERROR_SUCCESS"
    [] OTHER               -> "ERROR_ACCESS_DENIED"

\* an overflow that keeps the session, as an incomplete read does
PollErrorEvicts_keep_overflow(err) ==
  err \notin {"ERROR_IO_INCOMPLETE", "ERROR_NOTIFY_ENUM_DIR"}

\* the error branch: ERROR_IO_INCOMPLETE continues, ERROR_NOTIFY_ENUM_DIR
\* logs "Overflow." and falls through, with every other error, to
\* stop_search_for_path(path)
PollErrorEvicts(err) == err # "ERROR_IO_INCOMPLETE"

\* an incomplete read answered by issuing another read
RequestsAfterIncomplete_reissue(path) ==
  read_directory_changes(requests, path, TRUE)

\* ERROR_IO_INCOMPLETE: `continue`, the request is left as it is
RequestsAfterIncomplete(path) == requests

\* the error text written to cout, where the events go
CoutAfterPollError_cout(err) ==
  IF err = "ERROR_IO_INCOMPLETE" THEN out ELSE Append(out, <<79, 118, 101, 114>>)

\* what the error branch writes to cout: nothing; "Overflow." goes to cerr,
\* the GetOverlappedResult message to wcerr and "I/O incomplete" to the log
CoutAfterPollError(err) == out

run_poll ==
  /\ pc = "poll"
  /\ LET path   == PathAt(idx)
         status == IF requests[path] = <<>> THEN "error" ELSE Head(requests[path])
         err    == GetLastError(status)
     IN
       IF status # "ok"
       THEN \* GetOverlappedResult returned FALSE
            /\ out' = CoutAfterPollError(err)
            /\ visit' = [visit EXCEPT !.poll =
                 CASE err = "ERROR_IO_INCOMPLETE"   -> "incomplete"
                   [] err = "ERROR_NOTIFY_ENUM_DIR" -> "overflow"
                   [] OTHER                         -> "error"]
            /\ IF PollErrorEvicts(err)
               THEN LET registry == stop_search_for_path(path) IN
                    /\ dce_by_path' = registry
                    /\ open_handles' = HandlesAfter(registry)
                    /\ heap' = HeapAfter(registry)
                    /\ requests' = RequestsAfter(registry)
               ELSE /\ requests' = RequestsAfterIncomplete(path)
                    /\ UNCHANGED <<dce_by_path, open_handles, heap>>
            /\ Continue
            /\ UNCHANGED curr_entry
       ELSE \* the read completed: bytes_returned and the buffer are the
            \* program's to read
            \E buffer \in Buffers :
              /\ dce_by_path' = [dce_by_path EXCEPT ![path] =
                   [@ EXCEPT !.bytes_returned = BytesReturned(buffer),
                             !.buffer = buffer]]
              /\ requests' = [requests EXCEPT ![path] = Tail(@)]
              /\ out' = out
              /\ IF BytesReturned(buffer) = 0
                 THEN /\ visit' = [visit EXCEPT !.poll = "zero"]
                      /\ pc' = "reset"
                      /\ curr_entry' = NULL
                 ELSE /\ visit' = [visit EXCEPT !.poll = "data"]
                      /\ pc' = "decode"
                      /\ curr_entry' = 0
              /\ UNCHANGED <<idx, open_handles, heap>>
  /\ UNCHANGED <<win_paths, event_by_path>>
  /\ UNCHANGED <<event_flag_type, dfvars, chvars>>

(***************************************************************************)
(* One iteration of the decoder's while loop.                              *)
(***************************************************************************)
\* the guard that decides whether a record is printed, dropped
EmitsEvent_always(entry) == TRUE

\* a record whose action code is not in the table is dropped
EmitsEvent_known(entry) ==
  entry.FileNameLength > 0 /\ entry.Action \in FILE_ACTION_ADDED..FILE_ACTION_RENAMED_NEW_NAME

\* if (currEntry->FileNameLength > 0)
EmitsEvent(entry) == entry.FileNameLength > 0

run_decode ==
  /\ pc = "decode"
  /\ LET path  == PathAt(idx)
         entry == EntryAt(dce_by_path[path].buffer, curr_entry)
     IN
       \E converted \in BOOLEAN :
         /\ EmitsEvent(entry) \/ converted
         /\ IF EmitsEvent(entry) /\ ~converted
            THEN \* bs == 0: throw "WideCharToMultiByte failed."
                 /\ pc' = "fatal"
                 /\ UNCHANGED <<out, curr_entry>>
            ELSE /\ out' = IF EmitsEvent(entry)
                           THEN Append(out, WideCharToMultiByte(AbsPath(path, entry)))
                           ELSE out
                 /\ curr_entry' = NextEntry(curr_entry, entry)
                 /\ pc' = IF curr_entry' = NULL THEN "reset" ELSE "decode"
  /\ UNCHANGED <<idx, win_paths, event_by_path, dce_by_path, requests,
                 open_handles, heap, visit>>
  /\ UNCHANGED <<event_flag_type, dfvars, chvars>>

\* the read is reissued without resetting the event
run_reset_skipped ==
  /\ pc = "reset"
  /\ pc' = "reissue"
  /\ UNCHANGED <<idx, win_paths, event_by_path, dce_by_path, requests,
                 open_handles, heap, curr_entry, out, visit>>
  /\ UNCHANGED <<event_flag_type, dfvars, chvars>>

\* if (!ResetEvent(dce.overlapped.get()->hEvent)) throw ...
run_reset ==
  /\ pc = "reset"
  /\ LET path == PathAt(idx) IN
     \E ok \in BOOLEAN :
       IF ok
       THEN /\ event_by_path' =
                 [event_by_path EXCEPT ![dce_by_path[path].hEvent] = "nonsignaled"]
            /\ visit' = [visit EXCEPT !.reset = "ok"]
            /\ pc' = "reissue"
       ELSE /\ visit' = [visit EXCEPT !.reset = "failed"]
            /\ pc' = "fatal"
            /\ UNCHANGED event_by_path
  /\ UNCHANGED <<idx, win_paths, dce_by_path, requests, open_handles, heap,
                 curr_entry, out>>
  /\ UNCHANGED <<event_flag_type, dfvars, chvars>>

\* a failed reissue that leaves the session in the registry
RegistryAfterReissue_keep(path, accepted) ==
  [dce_by_path EXCEPT ![path] =
     [@ EXCEPT !.bytes_returned = Indeterminate, !.buffer = Indeterminate]]

\* if (!read_directory_changes(dce)) { stop_search_for_path(path); continue; }
RegistryAfterReissue(path, accepted) ==
  IF accepted
  THEN [dce_by_path EXCEPT ![path] =
          [@ EXCEPT !.bytes_returned = Indeterminate, !.buffer = Indeterminate]]
  ELSE stop_search_for_path(path)

run_reissue ==
  /\ pc = "reissue"
  /\ LET path == PathAt(idx) IN
     \E accepted \in BOOLEAN :
       LET registry == RegistryAfterReissue(path, accepted) IN
       /\ visit' = [visit EXCEPT !.reissue = IF accepted THEN "ok" ELSE "failed"]
       /\ dce_by_path' = registry
       /\ open_handles' = HandlesAfter(registry)
       /\ heap' = HeapAfter(registry)
       /\ requests' = read_directory_changes(RequestsAfter(registry), path, accepted)
  /\ Continue
  /\ UNCHANGED <<win_paths, event_by_path, curr_entry, out>>
  /\ UNCHANGED <<event_flag_type, dfvars, chvars>>

(***************************************************************************)
(* The operating system completes a pending read: with data (or none),    *)
(* with a record-buffer overflow, or with another error.                   *)
(***************************************************************************)
OsComplete(path) ==
  /\ pc \notin {"start", "fatal"}
  /\ requests[path] # <<>>
  /\ Head(requests[path]) = "pending"
  /\ \E status \in {"ok", "overflow", "error"} :
       requests' = [requests EXCEPT ![path] = <<status>> \o Tail(@)]
  /\ event_by_path' = [event_by_path EXCEPT ![path] = "signaled"]
  /\ UNCHANGED <<pc, idx, win_paths, dce_by_path, open_handles, heap, curr_entry,
                 out, visit>>
  /\ UNCHANGED <<event_flag_type, dfvars, chvars>>

Next ==
  \/ run_setup
  \/ run_sleep
  \/ run_find
  \/ init_search_for_path
  \/ run_poll
  \/ run_decode
  \/ run_reset
  \/ run_reissue
  \/ \E path \in WinPaths : OsComplete(path)

Spec == Init /\ [][Next]_vars

(***************************************************************************)
(* decode_flags(flag): the loop over event_flag_type, one entry per step.  *)
(***************************************************************************)
SetOf(seq) == {seq[i] : i \in 1..Len(seq)}

decode_flags_call ==
  /\ df_pc = "idle"
  /\ \E flag \in 0..MaxActionCode : df_flag' = flag
  /\ df_i' = 1
  /\ evt_flags_set' = {}
  /\ df_pc' = "loop"
  /\ UNCHANGED <<df_result, event_flag_type, mainvars, chvars>>

decode_flags_step ==
  /\ df_pc = "loop"
  /\ df_i <= Len(event_flag_type)
  /\ evt_flags_set' =
       IF df_flag = event_flag_type[df_i].action
       THEN evt_flags_set \cup SetOf(event_flag_type[df_i].types)
       ELSE evt_flags_set
  /\ df_i' = df_i + 1
  /\ UNCHANGED <<df_pc, df_flag, df_result, event_flag_type, mainvars, chvars>>

decode_flags_return ==
  /\ df_pc = "loop"
  /\ df_i > Len(event_flag_type)
  /\ df_result' = evt_flags_set
  /\ df_pc' = "idle"
  /\ UNCHANGED <<df_flag, df_i, evt_flags_set, event_flag_type, mainvars, chvars>>

NextFlags == decode_flags_call \/ decode_flags_step \/ decode_flags_return

SpecFlags == Init /\ [][NextFlags]_vars


(***************************************************************************)
(* Definitions shared by the properties below.                             *)
(***************************************************************************)
Registered(path) == path \in DOMAIN dce_by_path

\* the visit of visit.path is over: run went on to the next path or to sleep
VisitEnded == pc \in {"find", "sleep"}

\* the buffer of the visited session is the one the last poll handed over
Decoding == pc \in {"decode", "reset", "reissue"} /\ visit.poll = "data"

VisitedBuffer == dce_by_path[visit.path].buffer

NamedRecords(buffer) == SelectSeq(buffer, LAMBDA r : r.FileNameLength > 0)

RECURSIVE Utf8Decode(_)
Utf8Decode(bs) ==
  IF bs = <<>> THEN <<>>
  ELSE IF bs[1] < 128 THEN <<bs[1]>> \o Utf8Decode(SubSeq(bs, 2, Len(bs)))
  ELSE IF bs[1] < 224
       THEN <<(bs[1] - 192) * 64 + (bs[2] - 128)>> \o Utf8Decode(SubSeq(bs, 3, Len(bs)))
  ELSE <<(bs[1] - 224) * 4096 + (bs[2] - 128) * 64 + (bs[3] - 128)>>
         \o Utf8Decode(SubSeq(bs, 4, Len(bs)))

C2_ErrorEvictsThenReinit ==
  /\ [](visit.poll = "error" => ~Registered(visit.path) /\ VisitEnded)
  /\ [][\A path \in WinPaths :
          /\ (pc = "find" /\ pc' # pc /\ PathAt(idx) = path /\ ~Registered(path))
               => (pc' = "init" /\ idx' = idx /\ visit'.path = path)
          /\ (~Registered(path) /\ path \in DOMAIN dce_by_path')
               => (pc = "init" /\ PathAt(idx) = path)]_vars

C2_Witness ==
  /\ visit.poll = "error"
  /\ ~Registered(visit.path)
  /\ event_by_path[visit.path] = "signaled"
  /\ pc = "sleep"

(***************************************************************************)
(* C3.  Claimed: after a poll that completes with zero bytes no event is   *)
(* produced and the session is still registered when the visit ends.       *)
(* C3_ZeroBytesKeepsSession states the claim; it fails when the read that  *)
(* is reissued after the zero-byte poll is refused.  C3_ZeroBytes: no      *)
(* event is produced, the session is registered up to the reissue, and at  *)
(* the end of the visit it is registered exactly when the reissue was      *)
(* accepted.                                                               *)
(***************************************************************************)
C3_ZeroBytesKeepsSession ==
  (visit.poll = "zero" /\ VisitEnded) =>
    (out = <<>> /\ Registered(visit.path))

C3_ZeroBytes ==
  visit.poll = "zero" =>
    /\ out = <<>>
    /\ ~VisitEnded => Registered(visit.path)
    /\ VisitEnded => (Registered(visit.path) <=> visit.reissue = "ok")
    /\ VisitEnded => visit.reset = "ok"

C3_Witness ==
  /\ visit.poll = "zero"
  /\ visit.reissue = "ok"
  /\ VisitEnded
  /\ Registered(visit.path)

(***************************************************************************)
(* C4.  Right after init_search_for_path returned true the registry holds  *)
(* the session of the path (one entry, the map being keyed by path) and    *)
(* that session has exactly one outstanding read.                          *)
(***************************************************************************)
C4_InitRegistersOneRequest ==
  (visit.init = "ok" /\ visit.poll = "none") =>
    /\ Registered(visit.path)
    /\ Len(requests[visit.path]) = 1
    /\ open_handles[visit.path] = 1
    /\ dce_by_path[visit.path].handle = visit.path

C4_Witness ==
  /\ visit.init = "ok"
  /\ pc = "poll"
  /\ requests[visit.path] = <<"pending">>

(***************************************************************************)
(* C5.  The registry has no entry for a path until an init of that path    *)
(* succeeds: it starts empty, an entry appears only in the step in which   *)
(* init_search_for_path of that path returns true, and an init that fails  *)
(* at CreateFileW or at the first ReadDirectoryChangesW leaves the path    *)
(* without an entry.                                                       *)
(***************************************************************************)
C5_NoEntryBeforeInitSucceeds ==
  /\ DOMAIN dce_by_path = {}
  /\ [](visit.init \in {"open_failed", "read_failed"} => ~Registered(visit.path))
  /\ [][\A path \in WinPaths :
          (~Registered(path) /\ path \in DOMAIN dce_by_path')
            => (visit'.init = "ok" /\ visit'.path = path)]_vars

C5_Witness ==
  /\ visit.init = "read_failed"
  /\ ~Registered(visit.path)
  /\ open_handles[visit.path] = 0

(***************************************************************************)
(* C6.  Every session has at most one outstanding read at any time, and a  *)
(* path without a session has none.                                        *)
(***************************************************************************)
C6_AtMostOneOutstanding ==
  \A path \in WinPaths :
    /\ Len(requests[path]) <= 1
    /\ ~Registered(path) => requests[path] = <<>>

C6_Witness ==
  /\ visit.reissue = "ok"
  /\ requests[visit.path] = <<"pending">>

C8_FlagsOfKnownActions ==
  /\ Len(event_flag_type) = 5
  /\ \A i \in 1..Len(event_flag_type) :
       /\ event_flag_type[i].action = i
       /\ event_flag_type[i].types =
            CASE i = FILE_ACTION_ADDED    -> <<"Created">>
              [] i = FILE_ACTION_REMOVED  -> <<"Removed">>
              [] i = FILE_ACTION_MODIFIED -> <<"Updated">>
              [] i = FILE_ACTION_RENAMED_OLD_NAME -> <<"MovedFrom", "Renamed">>
              [] i = FILE_ACTION_RENAMED_NEW_NAME -> <<"MovedTo", "Renamed">>
  /\ (df_pc = "idle" /\ df_flag = FILE_ACTION_ADDED) => df_result = {"Created"}
  /\ (df_pc = "idle" /\ df_flag = FILE_ACTION_REMOVED) => df_result = {"Removed"}
  /\ (df_pc = "idle" /\ df_flag = FILE_ACTION_MODIFIED) => df_result = {"Updated"}
  /\ (df_pc = "idle" /\ df_flag = FILE_ACTION_RENAMED_OLD_NAME)
       => df_result = {"MovedFrom", "Renamed"}
  /\ (df_pc = "idle" /\ df_flag = FILE_ACTION_RENAMED_NEW_NAME)
       => df_result = {"MovedTo", "Renamed"}

C8_Witness ==
  /\ df_pc = "idle"
  /\ df_flag = FILE_ACTION_RENAMED_OLD_NAME
  /\ df_result = {"MovedFrom", "Renamed"}

(***************************************************************************)
(* C9.  Every event emitted for a record is the watched directory's path,  *)
(* a backslash, and exactly the first FileNameLength / sizeof(wchar_t)     *)
(* code units of the FileName field, whatever follows them in the buffer.  *)
(***************************************************************************)
C9_NameByLength ==
  Decoding =>
    LET named == NamedRecords(VisitedBuffer) IN
    \A i \in 1..Len(out) :
      LET units == Utf8Decode(out[i])
          n     == named[i].FileNameLength \div SizeofWchar
      IN  /\ Len(units) = Len(visit.path) + 1 + n
          /\ SubSeq(units, 1, Len(visit.path)) = visit.path
          /\ units[Len(visit.path) + 1] = Backslash
          /\ \A k \in 1..n : units[Len(visit.path) + 1 + k] = named[i].FileName[k]

C9_Witness ==
  /\ Decoding
  /\ Len(out) = 1
  /\ NamedRecords(VisitedBuffer)[1].FileNameLength = 4
  /\ Len(NamedRecords(VisitedBuffer)[1].FileName) = 3

(***************************************************************************)
(* C10.  A recoverable failure of the visited path (CreateFileW or the     *)
(* first read failing in init, a completion error evicting the session, a  *)
(* reissue being refused) changes no other path's session, requests,       *)
(* handles or event, and the loop goes on to the next path of the tick.    *)
(***************************************************************************)
RecoverableFailureStep ==
  \/ pc = "init" /\ visit'.init \in {"open_failed", "read_failed"}
  \/ pc = "poll" /\ visit'.poll \in {"overflow", "error"}
  \/ pc = "reissue" /\ visit'.reissue = "failed"

C10_FailureConfinedToPath ==
  [][RecoverableFailureStep =>
       /\ \A other \in WinPaths \ {PathAt(idx)} :
            /\ Registered(other) <=> other \in DOMAIN dce_by_path'
            /\ Registered(other) => dce_by_path'[other] = dce_by_path[other]
            /\ requests'[other] = requests[other]
            /\ open_handles'[other] = open_handles[other]
            /\ event_by_path'[other] = event_by_path[other]
       /\ PathAt(idx) \notin DOMAIN dce_by_path'
       /\ IF idx < NumPaths
          THEN pc' = "find" /\ idx' = idx + 1
          ELSE pc' = "sleep"]_vars

C10_Witness ==
  /\ visit.reissue = "failed"
  /\ visit.path = PathAt(1)
  /\ pc = "find" /\ idx = 2
  /\ Registered(PathAt(2))
  /\ requests[PathAt(2)] = <<"pending">>

(***************************************************************************)
(* C11.  Errors never reach the event stream: whatever a visit wrote to    *)
(* cout was written while decoding a poll that completed with success and  *)
(* a nonzero byte count.  Nothing is on cout after init, an incomplete     *)
(* poll, a poll that ended in a completion error, or a zero-byte poll.     *)
(***************************************************************************)
C11_EventsOnlyFromData ==
  /\ out # <<>> => (visit.poll = "data" /\ visit.init \in {"none", "ok"})
  /\ visit.poll \in {"none", "incomplete", "overflow", "error", "zero"} => out = <<>>
  /\ pc \in {"init", "poll"} => out = <<>>

C11_Witness ==
  /\ visit.poll = "error"
  /\ out = <<>>
  /\ VisitEnded

(***************************************************************************)
(* C12.  Claimed: a session exclusively owns its directory handle, its     *)
(* completion (event) object and its notification buffer, and eviction     *)
(* releases all three.  C12_EvictionReleasesEvent states the claim; the    *)
(* event is created per path by initialize_events, owned by event_by_path  *)
(* and only referred to by the session, so eviction leaves it in place.    *)
(* C12_SessionOwnsHandleAndBlocks: a session owns one open directory       *)
(* handle and its two heap blocks (buffer, OVERLAPPED), both released when *)
(* it is evicted; the event of every path exists from start-up on and      *)
(* outlives the sessions of the path.                                      *)
(***************************************************************************)
Evicted == visit.poll \in {"overflow", "error"} \/ visit.reissue = "failed"

C13_IncompleteIsNoOp ==
  [][/\ (pc = "poll" /\ visit'.poll = "incomplete") =>
          /\ dce_by_path' = dce_by_path
          /\ requests' = requests
          /\ requests[PathAt(idx)] = <<"pending">>
          /\ event_by_path' = event_by_path
          /\ open_handles' = open_handles
          /\ heap' = heap
          /\ out' = out /\ out = <<>>
          /\ visit'.reset = "none" /\ visit'.reissue = "none"
          /\ pc' \in {"find", "sleep"}
     /\ (pc = "find" /\ pc' # pc /\ Registered(PathAt(idx))) =>
          /\ pc' = "poll"
          /\ requests' = requests
          /\ dce_by_path' = dce_by_path]_vars

C13_Witness ==
  /\ visit.poll = "incomplete"
  /\ VisitEnded
  /\ requests[visit.path] = <<"pending">>
  /\ visit.init = "none"

(***************************************************************************)
(* C14.  On a successful poll with nonzero bytes the steps come in this    *)
(* order: the decoder walks the whole buffer and emits its events while no *)
(* read is outstanding and the event is not yet reset; then the event is   *)
(* reset; then the read is reissued.  A refused reissue evicts the         *)
(* session, an accepted one leaves it registered with one outstanding      *)
(* read.                                                                   *)
(***************************************************************************)
C14_DecodeResetReissue ==
  visit.poll = "data" =>
    /\ pc = "decode" =>
         /\ visit.reset = "none" /\ visit.reissue = "none"
         /\ Registered(visit.path) /\ requests[visit.path] = <<>>
    /\ pc \in {"reset", "reissue"} =>
         /\ curr_entry = NULL
         /\ Len(out) = Len(NamedRecords(VisitedBuffer))
         /\ Registered(visit.path) /\ requests[visit.path] = <<>>
    /\ pc = "reset" => (visit.reset = "none" /\ visit.reissue = "none")
    /\ pc = "reissue" =>
         /\ visit.reset = "ok" /\ visit.reissue = "none"
         /\ event_by_path[visit.path] = "nonsignaled"
    /\ visit.reissue = "failed" =>
         /\ visit.reset = "ok"
         /\ ~Registered(visit.path) /\ requests[visit.path] = <<>>
    /\ visit.reissue = "ok" =>
         /\ visit.reset = "ok"
         /\ Registered(visit.path) /\ Len(requests[visit.path]) = 1

C14_Witness ==
  /\ visit.poll = "data"
  /\ visit.reissue = "ok"
  /\ Len(out) = 2
  /\ requests[visit.path] = <<"pending">>

(***************************************************************************)
(* C15.  A fatal condition ends the watch loop: once run has thrown, no    *)
(* path is processed, no read is issued or completed into the program and  *)
(* nothing is emitted.  run throws only on a fatal condition (an           *)
(* allocation failure or CreateEvent failure at start-up or in init, a     *)
(* failed ResetEvent, a failed name conversion), never on a recoverable or *)
(* transient one.                                                          *)
(***************************************************************************)
FatalCause ==
  \/ visit = NoVisit
  \/ visit.init \in {"dce_alloc_failed", "insert_alloc_failed"}
  \/ visit.reset = "failed"
  \/ visit.poll = "data" /\ visit.reset = "none" /\ curr_entry # NULL

C15_FatalStopsLoop ==
  /\ [](pc = "fatal" =>
          /\ FatalCause
          /\ visit.init \notin {"open_failed", "read_failed"}
          /\ visit.poll \notin {"incomplete", "overflow", "error"}
          /\ visit.reissue = "none")
  /\ [][pc = "fatal" =>
          /\ pc' = "fatal" /\ idx' = idx /\ visit' = visit
          /\ dce_by_path' = dce_by_path
          /\ requests' = requests
          /\ out' = out]_vars

C15_Witness ==
  /\ pc = "fatal"
  /\ visit.poll = "data"
  /\ visit.reset = "none"
  /\ Len(out) = 1
  /\ \E other \in WinPaths \ {visit.path} : requests[other] = <<"pending">>

(***************************************************************************)
(* C16.  A tick visits every monitored path exactly once, in the order of  *)
(* win_paths: the visit of a path without a session calls                  *)
(* init_search_for_path; when that fails run goes on to the next path,     *)
(* when it succeeds the new session is polled in the same visit; and       *)
(* init_search_for_path is entered only from the start of a visit, so a    *)
(* path evicted during a tick is not initialized again before the next     *)
(* tick.                                                                   *)
(***************************************************************************)
C16_TickVisitsEachPathOnce ==
  [][(pc' # pc \/ idx' # idx) =>
       /\ pc = "sleep" => (pc' = "find" /\ idx' = 1)
       /\ pc = "find" =>
            /\ idx' = idx
            /\ visit'.path = PathAt(idx)
            /\ pc' = IF Registered(PathAt(idx)) THEN "poll" ELSE "init"
       /\ pc = "init" =>
            /\ visit'.init = "ok" =>
                 (pc' = "poll" /\ idx' = idx /\ PathAt(idx) \in DOMAIN dce_by_path')
            /\ visit'.init \in {"open_failed", "read_failed"} =>
                 /\ PathAt(idx) \notin DOMAIN dce_by_path'
                 /\ IF idx < NumPaths
                    THEN pc' = "find" /\ idx' = idx + 1
                    ELSE pc' = "sleep"
       /\ pc' = "init" => pc = "find"
       /\ pc' = "poll" => (pc \in {"find", "init"} /\ idx' = idx)
       /\ pc' = "find" =>
            \/ pc = "sleep" /\ idx' = 1
            \/ pc \in {"init", "poll", "reissue"} /\ idx < NumPaths /\ idx' = idx + 1
       /\ pc' = "sleep" =>
            \/ pc = "start"
            \/ pc \in {"init", "poll", "reissue"} /\ idx = NumPaths
       /\ idx' # idx => pc' \in {"find", "sleep"}]_vars

C16_Witness ==
  /\ pc = "poll"
  /\ idx = NumPaths
  /\ visit.init = "ok"
  /\ ~Registered(PathAt(1))
  /\ event_by_path[PathAt(1)] = "signaled"

(***************************************************************************)
(* C17.  decode_flags returns the empty set for every action code other    *)
(* than the five of its table, and in run a record that carries such a     *)
(* code and a name is printed like any other: when the decoder has walked  *)
(* the buffer, the record's place in the output holds the path computed    *)
(* from the session's path and the record's name.  (The output of run is   *)
(* the path alone; no flag is attached to it.)                             *)
(***************************************************************************)
RECURSIVE decode_flags_from(_, _, _)
decode_flags_from(table, flag, i) ==
  IF i > Len(table)
  THEN {}
  ELSE (IF flag = table[i].action THEN SetOf(table[i].types) ELSE {})
         \cup decode_flags_from(table, flag, i + 1)

decode_flags(flag) == decode_flags_from(create_flag_type_vector, flag, 1)

UnknownActions ==
  (0..MaxActionCode) \ (FILE_ACTION_ADDED..FILE_ACTION_RENAMED_NEW_NAME)

Wrappers == 1..NumWrappers

\* the null handle passes for a valid one
is_valid_any(handle) == handle # INVALID_HANDLE_VALUE

\* static bool is_valid(const HANDLE & handle)
is_valid(handle) == handle # INVALID_HANDLE_VALUE /\ handle # nullptr

\* the source of a move keeps its handle
MovedFrom_kept(h) == h

\* other.h = INVALID_HANDLE_VALUE;
MovedFrom(h) == INVALID_HANDLE_VALUE

\* if (is_valid()) CloseHandle(h);
CloseHandle(h) ==
  closed' = IF is_valid(h) THEN [closed EXCEPT ![h] = @ + 1] ELSE closed

\* the raw handle of a constructor or of an assignment
RawHandle(handle) ==
  \/ /\ issued < MaxHandles
     /\ handle = Handle(issued + 1)
     /\ issued' = issued + 1
  \/ /\ handle \in {INVALID_HANDLE_VALUE, nullptr}
     /\ issued' = issued

\* CHandle() : h(INVALID_HANDLE_VALUE){}
CHandle_default ==
  \E w \in Wrappers :
    /\ wrappers[w] = "dead"
    /\ wrappers' = [wrappers EXCEPT ![w] = INVALID_HANDLE_VALUE]
    /\ moved' = [op |-> "construct", to |-> w, from |-> 0, old |-> "dead"]
    /\ UNCHANGED <<issued, closed>>
    /\ UNCHANGED <<mainvars, event_flag_type, dfvars>>

\* CHandle(HANDLE handle) : h(handle){}
CHandle_raw ==
  \E w \in Wrappers, handle \in HandleValues :
    /\ wrappers[w] = "dead"
    /\ RawHandle(handle)
    /\ wrappers' = [wrappers EXCEPT ![w] = handle]
    /\ moved' = [op |-> "construct_raw", to |-> w, from |-> 0, old |-> "dead"]
    /\ UNCHANGED closed
    /\ UNCHANGED <<mainvars, event_flag_type, dfvars>>

\* ~CHandle()
CHandle_destroy ==
  \E w \in Wrappers :
    /\ wrappers[w] # "dead"
    /\ CloseHandle(wrappers[w])
    /\ wrappers' = [wrappers EXCEPT ![w] = "dead"]
    /\ moved' = [op |-> "destroy", to |-> w, from |-> 0, old |-> wrappers[w]]
    /\ UNCHANGED issued
    /\ UNCHANGED <<mainvars, event_flag_type, dfvars>>

\* CHandle& operator=(const HANDLE& handle)
CHandle_assign_raw ==
  \E w \in Wrappers, handle \in HandleValues :
    /\ wrappers[w] # "dead"
    /\ RawHandle(handle)
    /\ CloseHandle(wrappers[w])
    /\ wrappers' = [wrappers EXCEPT ![w] = handle]
    /\ moved' = [op |-> "assign_raw", to |-> w, from |-> 0, old |-> wrappers[w]]
    /\ UNCHANGED <<mainvars, event_flag_type, dfvars>>

\* CHandle(CHandle&& other) noexcept
CHandle_move_construct ==
  \E w \in Wrappers, other \in Wrappers :
    /\ w # other
    /\ wrappers[w] = "dead"
    /\ wrappers[other] # "dead"
    /\ wrappers' = [wrappers EXCEPT ![w] = wrappers[other],
                                    ![other] = MovedFrom(wrappers[other])]
    /\ moved' = [op |-> "move_construct", to |-> w, from |-> other, old |-> "dead"]
    /\ UNCHANGED <<issued, closed>>
    /\ UNCHANGED <<mainvars, event_flag_type, dfvars>>

\* CHandle& operator=(CHandle&& other) noexcept
CHandle_move_assign ==
  \E w \in Wrappers, other \in Wrappers :
    /\ wrappers[w] # "dead"
    /\ wrappers[other] # "dead"
    /\ IF w = other
       THEN \* if (this == &other) return *this;
            UNCHANGED <<wrappers, closed>>
       ELSE /\ CloseHandle(wrappers[w])
            /\ wrappers' = [wrappers EXCEPT ![w] = wrappers[other],
                                            ![other] = MovedFrom(wrappers[other])]
    /\ moved' = [op |-> "move_assign", to |-> w, from |-> other, old |-> wrappers[w]]
    /\ UNCHANGED issued
    /\ UNCHANGED <<mainvars, event_flag_type, dfvars>>

NextHandle ==
  \/ CHandle_default
  \/ CHandle_raw
  \/ CHandle_destroy
  \/ CHandle_assign_raw
  \/ CHandle_move_construct
  \/ CHandle_move_assign

SpecHandle == Init /\ [][NextHandle]_vars

(***************************************************************************)
(* C18.  Over every sequence of constructions, raw assignments, move       *)
(* constructions, move assignments (self-move included) and destructions   *)
(* of CHandle objects: a handle the OS handed out is either held by        *)
(* exactly one live wrapper and not closed, or held by none and closed     *)
(* exactly once; the two sentinel values are never closed; after an        *)
(* assignment the value the target held before is closed if it was valid   *)
(* and no wrapper holds it; after a move between two objects the source    *)
(* holds INVALID_HANDLE_VALUE and a self-move changes nothing; and once    *)
(* every wrapper is destroyed every handle handed out is closed.           *)
(***************************************************************************)
Holders(h) == {w \in Wrappers : wrappers[w] = h}

C18_ReleasedExactlyOnce ==
  /\ \A k \in 1..MaxHandles :
       IF k <= issued
       THEN closed[Handle(k)] + Cardinality(Holders(Handle(k))) = 1
       ELSE closed[Handle(k)] = 0 /\ Holders(Handle(k)) = {}
  /\ closed[INVALID_HANDLE_VALUE] = 0
  /\ closed[nullptr] = 0
  /\ (moved.op \in {"assign_raw", "move_assign", "destroy"}
        /\ moved.to # moved.from /\ is_valid(moved.old)) =>
       (closed[moved.old] = 1 /\ Holders(moved.old) = {})
  /\ (moved.op \in {"move_construct", "move_assign"} /\ moved.to # moved.from) =>
       wrappers[moved.from] = INVALID_HANDLE_VALUE
  /\ (moved.op = "move_assign" /\ moved.to = moved.from) =>
       (wrappers[moved.to] = moved.old /\ (is_valid(moved.old) => closed[moved.old] = 0))
  /\ (\A w \in Wrappers : wrappers[w] = "dead") =>
       \A k \in 1..issued : closed[Handle(k)] = 1

C18_Witness ==
  /\ moved.op = "move_assign"
  /\ moved.to # moved.from
  /\ is_valid(moved.old)
  /\ closed[moved.old] = 1
  /\ is_valid(wrappers[moved.to])
  /\ closed[wrappers[moved.to]] = 0
  /\ wrappers[moved.from] = INVALID_HANDLE_VALUE
  /\ issued = MaxHandles

(***************************************************************************)
(* C19.  When init_search_for_path has returned true, the lookup of the    *)
(* path that follows it in run finds the session: run goes on to the poll  *)
(* of that session and never throws "Initialization failed.".              *)
(***************************************************************************)
C19_LookupAfterInitFinds ==
  (visit.init = "ok" /\ visit.poll = "none") =>
    /\ pc = "poll"
    /\ Registered(visit.path)
    /\ visit.path = PathAt(idx)
    /\ requests[visit.path] # <<>>

C19_Witness ==
  /\ visit.init = "ok"
  /\ visit.poll = "none"
  /\ pc = "poll"
  /\ idx = NumPaths
  /\ Registered(PathAt(idx))
  /\ ~Registered(PathAt(1))

(***************************************************************************)
(* C20.  While the loop runs, and so at every tick boundary, a path has    *)
(* one open directory handle when it has a session in the registry and     *)
(* none otherwise, and only monitored paths have sessions.  A call of      *)
(* init_search_for_path whose CreateFileW succeeded and whose first read   *)
(* was refused leaves no handle open, and so does an eviction.             *)
(***************************************************************************)
C20_NoHandleLeak ==
  /\ pc # "fatal" =>
       /\ \A path \in WinPaths :
            open_handles[path] = IF Registered(path) THEN 1 ELSE 0
       /\ DOMAIN dce_by_path \subseteq win_paths
  /\ visit.init \in {"open_failed", "read_failed"} =>
       (open_handles[visit.path] = 0 /\ ~Registered(visit.path))
  /\ Evicted => open_handles[visit.path] = 0

C20_Witness ==
  /\ pc = "sleep"
  /\ visit.init = "read_failed"
  /\ open_handles[visit.path] = 0
  /\ \E other \in WinPaths :
       /\ other # visit.path
       /\ Registered(other)
       /\ open_handles[other] = 1

====
